---- MODULE Spec2Model ----
(***************************************************************************)
(* State-machine model of src/src/thread.ts (ThreadManager and Thread).    *)
(*                                                                         *)
(* One action per handler or operation of the source; a handler that       *)
(* awaits is split at its awaits.  Each specification below drives the     *)
(* same actions with the events of one part of the program (thread tree,   *)
(* manager broadcasts, script/source linkage, gated pauses, output slots). *)
(***************************************************************************)
EXTENDS Integers, Sequences, FiniteSets, TLC

(* ------------------------------ bounds -------------------------------- *)
\* threads created in the thread-tree specification
MaxTreeThreads == 4
\* threads created in the exception-pause policy specification
MaxMgrThreads == 2
\* setPauseOnExceptionsState calls that have not returned, in the same
MaxCalls == 2
\* threads created in the custom-breakpoint specification
MaxBpThreads == 2
\* Script objects created in the script/source specification
MaxScripts == 3
\* execution-contexts-cleared events in the script/source specification
MaxClears == 1
\* gated (instrumentation) pauses handled in the pause specification
MaxGatedPauses == 2
\* Script objects created in the pause specification
MaxPauseScripts == 2
\* Debugger.resume commands of the client on their way, in the same
MaxResumeCmds == 1
\* output slots claimed (over all threads) in the output specification
MaxSlots == 3
\* rounds of the connect loop of WebSocketTransport.create
MaxAttempts == 3
\* calls of WebSocketTransport.dispose
MaxDisposes == 2
\* messages transmitted by WebSocketTransport.send
MaxSends == 2
\* pause events in the pause-state specification
MaxStops == 1
\* pauses (over all threads) in the notification specification
MaxNotifyStops == 2
\* dap.stopped notifications per thread in the pause specification
MaxPauseStops == 1
\* Script objects created in the pause-state specification
MaxStopScripts == 1

Max2(a, b) == IF a >= b THEN a ELSE b
ThreadIds == 1 .. Max2(Max2(MaxTreeThreads, MaxMgrThreads), Max2(MaxBpThreads, 2))
\* the threads of the script/source, pause and output specifications: two, so
\* that Scripts of different threads share a Source and outputs of different
\* threads share the console
TwoThreads == {1, 2}
NoThread == 0

ScriptIds == {"s1", "s2"}
NoScriptId == "none"
Urls == {"", "app.js"}
BreakpointIds == {"click", "stale"}
\* ids the custom-breakpoint catalog knows ("stale" stands for an id saved in
\* the workspace that the catalog no longer has)
CatalogIds == {"click"}
PauseOnExceptionsStates == {"none", "uncaught", "all"}
\* the subscriptions Thread.initialize makes
EventNames == {"executionContextCreated", "executionContextDestroyed",
               "executionContextsCleared", "consoleAPICalled", "exceptionThrown",
               "inspectRequested", "paused", "resumed", "scriptParsed"}

(* ------------------------------- state -------------------------------- *)
VARIABLES
  \* ThreadManager
  lastThreadId,               \* module counter lastThreadId
  threads,                    \* ThreadManager._threads, ids in insertion order
  pauseOnExceptionsState,     \* ThreadManager._pauseOnExceptionsState
  customBreakpoints,          \* ThreadManager._customBreakpoints
  scriptWithSourceMapHandler, \* whether ThreadManager._scriptWithSourceMapHandler is set
  consoleIsDirty,             \* ThreadManager._consoleIsDirty
  calls,                      \* manager calls that have not returned: [op, awaiting]
  lastReturn,                 \* how the last manager call that returned ended
  \* Thread (one entry per thread id; disposed Thread objects keep their fields)
  parentThread,               \* Thread.parentThread (NoThread = undefined)
  childThreads,               \* Thread._childThreads
  supportsCustomBreakpoints,  \* Thread._supportsCustomBreakpoints
  subscribed,                 \* cdp event subscriptions made by initialize()
  eventListeners,             \* Thread._eventListeners
  initialized,                \* threads on which initialize() has run
  scripts,                    \* Thread._scripts: script id -> Script object (0 = absent)
  executionContexts,          \* Thread._executionContexts (context ids)
  pausedDetails,              \* Thread._pausedDetails
  pausedVariables,            \* whether Thread._pausedVariables is allocated
  pausedForSourceMapScriptId, \* Thread._pausedForSourceMapScriptId
  supportsSourceMapPause,     \* Thread._supportsSourceMapPause
  slots,                      \* the chain behind Thread._serializedOutput
  \* objects and collaborators
  scriptObjs,                 \* every Script object created: [scriptId, source, thread]
  sources,                    \* every Source created: [url, scripts, registered, removed]
  scriptPausedTimeout,        \* sourceMapTimeouts().scriptPaused is non-zero
  instrBp,                    \* setInstrumentationBreakpoint: "none" | "pending" | "accepted" | "rejected"
  gated,                      \* invocations of _handleSourceMapPause
  mapWaits,                   \* Script objects with a pending waitForSourceMapSources(..).then
  handlerCalls,               \* calls of the script-with-source-map handler per Script object
  resumeCmds,                 \* Debugger.resume commands on their way to the target
  targetPaused,               \* the target of the thread is paused
  \* what the thread has sent
  sentPoe,                    \* state of the last Debugger.setPauseOnExceptions sent
  appliedBp,                  \* last breakpoint.apply(cdp, enabled) per id
  dapThread,                  \* last dap.thread reason per thread
  dapRun,                     \* last of dap.stopped / dap.continued per thread
  dapRunBefore,               \* the dap.stopped / dap.continued sent before that one
  dapStopped,                 \* dap.stopped per thread: how many were sent, and the last one
  bpInFlight,                 \* ids whose breakpoint.apply command the target has not answered
  bpReported,                 \* what updateCustomBreakpoint(id, ..) last returned, per thread
  dapOutput,                  \* dap.output payloads, in emission order
  \* WebSocketTransport
  wsUrl,                      \* the url given to WebSocketTransport.create
  cancellationRequested,      \* cancellationToken.isCancellationRequested
  createPc,                   \* position of create(): "idle" | "lookup" | "attempt" | "returned" | "thrown"
  targetAddressIsLoopback,    \* the local of create(), once isLoopback(url) has answered
  attempts,                   \* the WebSocket of every round of the loop: [rejectUnauthorized, outcome, closed]
  thrown,                     \* the error create() has thrown: [attempt, kind]
  ws,                         \* WebSocketTransport._ws: "set" | "undefined" ("none" before the constructor)
  readyState,                 \* state of the transport's WebSocket: "none" | "open" | "closing" | "closed"
  endFired,                   \* times endEmitter has fired
  disposes,                   \* the promises dispose() has returned: "pending" | "resolved"
  transmitted                 \* messages WebSocket.send has put on the connection

managerVars == <<lastThreadId, threads, pauseOnExceptionsState, customBreakpoints,
                 scriptWithSourceMapHandler, calls, lastReturn>>
treeVars    == <<parentThread, childThreads>>
configVars  == <<supportsCustomBreakpoints, scriptPausedTimeout>>
listenVars  == <<subscribed, eventListeners, initialized>>
scriptVars  == <<scripts, scriptObjs, sources>>
pauseVars   == <<pausedDetails, pausedVariables, pausedForSourceMapScriptId,
                 supportsSourceMapPause, instrBp, gated, mapWaits, handlerCalls,
                 resumeCmds, targetPaused, executionContexts>>
outputVars  == <<slots, consoleIsDirty, dapOutput>>
sentVars    == <<sentPoe, appliedBp, dapThread, dapRun, dapRunBefore, dapStopped, bpInFlight, bpReported>>

transportVars == <<wsUrl, cancellationRequested, createPc, targetAddressIsLoopback,
                   attempts, thrown, ws, readyState, endFired, disposes, transmitted>>

vars == <<managerVars, treeVars, configVars, listenVars, scriptVars, pauseVars,
          outputVars, sentVars, transportVars>>

(* ------------------------------ helpers ------------------------------- *)
Range(s) == {s[i] : i \in DOMAIN s}

\* Array.prototype.indexOf: 0-based, -1 when absent
IndexOf(list, x) ==
  IF \E i \in DOMAIN list : list[i] = x
  THEN (CHOOSE i \in DOMAIN list : list[i] = x /\ \A j \in 1 .. (i - 1) : list[j] # x) - 1
  ELSE -1

\* Array.prototype.splice(start, 1): a negative start counts from the end
SpliceOne(list, start) ==
  LET from == IF start < 0 THEN Max2(Len(list) + start, 0) ELSE start
  IN  IF from >= Len(list) THEN list
      ELSE SubSeq(list, 1, from) \o SubSeq(list, from + 2, Len(list))

RECURSIVE SetToSeq(_)
\* the elements of a set of numbers in increasing order
SetToSeq(S) ==
  IF S = {} THEN <<>>
  ELSE LET m == CHOOSE x \in S : \A y \in S : x <= y
       IN  <<m>> \o SetToSeq(S \ {m})

Live(t) == t \in Range(threads)
Created(t) == t \in 1 .. lastThreadId

NoDetails == [reason |-> "none", description |-> "none", text |-> "none", exception |-> FALSE]

\* no dap.stopped notification yet
NoStopped == [reason |-> "none", description |-> "none", text |-> "none"]

(* ------------------------------- Init --------------------------------- *)
NoUrl == <<>>
NoError == [attempt |-> 0, kind |-> "none"]

\* before WebSocketTransport.create is called
InitTransport ==
  /\ wsUrl = NoUrl
  /\ cancellationRequested = FALSE
  /\ createPc = "idle"
  /\ targetAddressIsLoopback = FALSE
  /\ attempts = <<>>
  /\ thrown = NoError
  /\ ws = "none"
  /\ readyState = "none"
  /\ endFired = 0
  /\ disposes = <<>>
  /\ transmitted = 0

\* the state after `new ThreadManager(dap, sourcePathResolver, sourceContainer)`
InitManager ==
  /\ lastThreadId = 0
  /\ threads = <<>>
  /\ pauseOnExceptionsState = "none"
  /\ customBreakpoints = {}
  /\ scriptWithSourceMapHandler = FALSE
  /\ consoleIsDirty = FALSE
  /\ calls = <<>>
  /\ lastReturn = "none"
  /\ parentThread = [t \in ThreadIds |-> NoThread]
  /\ childThreads = [t \in ThreadIds |-> <<>>]
  /\ supportsCustomBreakpoints = [t \in ThreadIds |-> FALSE]
  /\ subscribed = [t \in ThreadIds |-> {}]
  /\ eventListeners = [t \in ThreadIds |-> {}]
  /\ initialized = {}
  /\ scripts = [t \in ThreadIds |-> [id \in ScriptIds |-> 0]]
  /\ executionContexts = [t \in ThreadIds |-> {}]
  /\ pausedDetails = [t \in ThreadIds |-> NoDetails]
  /\ pausedVariables = [t \in ThreadIds |-> FALSE]
  /\ pausedForSourceMapScriptId = [t \in ThreadIds |-> NoScriptId]
  /\ supportsSourceMapPause = [t \in ThreadIds |-> FALSE]
  /\ slots = [t \in ThreadIds |-> <<>>]
  /\ scriptObjs = <<>>
  /\ sources = <<>>
  /\ instrBp = [t \in ThreadIds |-> "none"]
  /\ gated = <<>>
  /\ mapWaits = {}
  /\ handlerCalls = <<>>
  /\ resumeCmds = [t \in ThreadIds |-> 0]
  /\ targetPaused = [t \in ThreadIds |-> FALSE]
  /\ sentPoe = [t \in ThreadIds |-> "unset"]
  /\ appliedBp = [t \in ThreadIds |-> [id \in BreakpointIds |-> "unset"]]
  /\ dapThread = [t \in ThreadIds |-> "none"]
  /\ dapRun = [t \in ThreadIds |-> "none"]
  /\ dapRunBefore = [t \in ThreadIds |-> "none"]
  /\ dapStopped = [t \in ThreadIds |-> [count |-> 0, last |-> NoStopped]]
  /\ bpInFlight = [t \in ThreadIds |-> {}]
  /\ bpReported = [t \in ThreadIds |-> [id \in BreakpointIds |-> "unset"]]
  /\ dapOutput = <<>>
  /\ InitTransport

(* ------------------------- ThreadManager / tree ------------------------ *)
\* Thread.constructor, reached through ThreadManager.createThread(cdp, parent, configuration)
CreateThread(parent, configuration) ==
  LET id == lastThreadId + 1 IN
  /\ id \in ThreadIds
  /\ parent = NoThread \/ Live(parent)
  /\ parentThread' = [parentThread EXCEPT ![id] = parent]
  /\ childThreads' = IF parent # NoThread
                     THEN [childThreads EXCEPT ![parent] = Append(@, id)]
                     ELSE childThreads
  /\ lastThreadId' = id
  /\ supportsCustomBreakpoints' = [supportsCustomBreakpoints EXCEPT ![id] = configuration]
  /\ threads' = Append(threads, id)                       \* manager._addThread(this)
  /\ slots' = [slots EXCEPT ![id] = <<>>]                 \* _serializedOutput = Promise.resolve()
  /\ UNCHANGED <<pauseOnExceptionsState, customBreakpoints, scriptWithSourceMapHandler,
                 calls, lastReturn, scriptPausedTimeout, listenVars, scriptVars, pauseVars,
                 consoleIsDirty, dapOutput, sentVars, transportVars>>

\* ThreadManager._removeThread: the map without the thread
RemoveThread(list, t) == SelectSeq(list, LAMBDA x : x # t)

\* Thread.dispose, lines 548-551: what becomes of the parent's child list
DisposeChildList(parentList, t, children) ==
  SpliceOne(parentList, IndexOf(parentList, t)) \o children

\* Thread.updateCustomBreakpoint(id, enabled): the thread's record of applied breakpoints
UpdateCustomBreakpoint(applied, supports, id, enabled) ==
  IF ~supports THEN applied
  ELSE IF id \notin CatalogIds THEN applied
  ELSE [applied EXCEPT ![id] = IF enabled THEN "on" ELSE "off"]

RECURSIVE UpdateCustomBreakpoints(_, _, _, _)
\* the loops `for (const id of ids) thread.updateCustomBreakpoint(id, enabled)`
UpdateCustomBreakpoints(applied, supports, ids, enabled) ==
  IF ids = {} THEN applied
  ELSE LET id == CHOOSE x \in ids : TRUE
       IN  UpdateCustomBreakpoints(UpdateCustomBreakpoint(applied, supports, id, enabled),
                                   supports, ids \ {id}, enabled)

\* Thread.updateCustomBreakpoint, lines 598-603: breakpoint.apply is reached
AppliesCommand(supports, id) == supports /\ id \in CatalogIds

\* mutation: an id that was not applied is reported as a failure
UpdateCustomBreakpointResultStrict(supports, id) == AppliesCommand(supports, id)

\* Thread.updateCustomBreakpoint: the value its promise resolves to
\* (`return true` of lines 599, 602 and 604)
UpdateCustomBreakpointResult(supports, id) ==
  IF ~supports THEN TRUE
  ELSE IF id \notin CatalogIds THEN TRUE
  ELSE TRUE

\* the ids of a thread with an unanswered apply command, after the calls
\* updateCustomBreakpoint(id, ..) for the ids
InFlightAfter(inflight, supports, ids) ==
  inflight \cup {id \in ids : AppliesCommand(supports, id)}

\* what updateCustomBreakpoint last returned per id, after the calls for the ids
ReportedAfter(reported, supports, ids) ==
  [id \in BreakpointIds |->
     IF id \in ids
     THEN IF UpdateCustomBreakpointResult(supports, id) THEN "true" ELSE "false"
     ELSE reported[id]]

\* Thread._updatePauseOnExceptionsState: the state put in the command is the
\* manager's state when the command is sent
UpdatePauseOnExceptionsState(managerState) == managerState

\* mutation: the loop runs before `this._pauseOnExceptionsState = state`
PolicyAtBroadcastStale(old, new) == old

\* ThreadManager.setPauseOnExceptionsState: the manager's state the broadcast loop reads
PolicyAtBroadcast(old, new) == new

\* ThreadManager.enableCustomBreakpoints: this._customBreakpoints.add(id)
EnableMembership(set, ids) == set \cup ids

\* ThreadManager.disableCustomBreakpoints: this._customBreakpoints.add(id)
DisableMembership(set, ids) == set \cup ids
(* --------------------- Script / Source linkage ------------------------- *)
\* SourceContainer.sourceByUrl(url): the registered Source of that url, 0 when none
SourceByUrl(srcs, url) ==
  IF \E i \in DOMAIN srcs : srcs[i].registered /\ srcs[i].url = url
  THEN CHOOSE i \in DOMAIN srcs : srcs[i].registered /\ srcs[i].url = url
  ELSE 0

\* SourceContainer.addSource(url, ...): a new registered Source
AddSource(srcs, url) ==
  Append(srcs, [url |-> url, scripts |-> {}, registered |-> TRUE, removed |-> 0])

\* SourceContainer.removeSource(source): the Source leaves the registry
RemoveSource(srcs, src) ==
  [srcs EXCEPT ![src].registered = FALSE, ![src].removed = @ + 1]

\* mutation: `if (set.size <= 1)`
SetIsEmptyOffByOne(set) == Cardinality(set) <= 1

\* Thread._removeAllScripts, line 775: `if (!set.size)`
SetIsEmpty(set) == Cardinality(set) = 0

\* Thread._removeAllScripts, line 774: `set.delete(script)`
SetDelete(set, script) == set \ {script}

RECURSIVE RemoveScripts(_, _)
\* Thread._removeAllScripts, the loop over the scripts the thread held
RemoveScripts(list, srcs) ==
  IF list = <<>> THEN srcs
  ELSE LET script == Head(list)
           src    == scriptObjs[script].source
           set    == SetDelete(srcs[src].scripts, script)
           srcs1  == [srcs EXCEPT ![src].scripts = set]
           srcs2  == IF SetIsEmpty(set) THEN RemoveSource(srcs1, src) ELSE srcs1
       IN  RemoveScripts(Tail(list), srcs2)

\* Array.from(this._scripts.values())
ScriptsOf(t) == {scripts[t][id] : id \in ScriptIds} \ {0}

\* Thread._removeAllScripts: the Sources afterwards (this._scripts is cleared beside it)
RemoveAllScripts(t) == RemoveScripts(SetToSeq(ScriptsOf(t)), sources)

NoScripts == [id \in ScriptIds |-> 0]

\* mutation: the lookup is skipped, every script gets a new Source
LookupSourceSkipped(srcs, url) == 0

\* Thread._onScriptParsed, lines 782-783: the Source looked up for the resolved url
LookupSource(srcs, url) == IF url # "" THEN SourceByUrl(srcs, url) ELSE 0

\* Thread._onScriptParsed(event); `url` is what scriptUrlToUrl(event.url) returned,
\* hasMap is whether event.sourceMapURL is set
OnScriptParsed(t, scriptId, url, hasMap) ==
  LET found  == LookupSource(sources, url)
      srcs1  == IF found = 0 THEN AddSource(sources, url) ELSE sources
      source == IF found = 0 THEN Len(srcs1) ELSE found
      script == Len(scriptObjs) + 1
  IN
  /\ "scriptParsed" \in subscribed[t]
  /\ scriptObjs' = Append(scriptObjs, [scriptId |-> scriptId, source |-> source, thread |-> t])
  /\ scripts' = [scripts EXCEPT ![t][scriptId] = script]
  /\ sources' = [srcs1 EXCEPT ![source].scripts = @ \cup {script}]
  /\ handlerCalls' = Append(handlerCalls, 0)
  /\ mapWaits' = IF ~supportsSourceMapPause[t] /\ hasMap
                 THEN mapWaits \cup {script} ELSE mapWaits
  /\ UNCHANGED <<managerVars, treeVars, configVars, listenVars, outputVars, sentVars,
                 pausedDetails, pausedVariables, pausedForSourceMapScriptId,
                 supportsSourceMapPause, instrBp, gated, resumeCmds, targetPaused,
                 executionContexts, transportVars>>

\* the continuation of waitForSourceMapSources(source).then(...) in _onScriptParsed
SourceMapSourcesResolved(script, nonEmpty) ==
  /\ script \in mapWaits
  /\ mapWaits' = mapWaits \ {script}
  /\ handlerCalls' = IF nonEmpty /\ scriptWithSourceMapHandler
                     THEN [handlerCalls EXCEPT ![script] = @ + 1] ELSE handlerCalls
  /\ UNCHANGED <<managerVars, treeVars, configVars, listenVars, scriptVars, outputVars,
                 sentVars, pausedDetails, pausedVariables, pausedForSourceMapScriptId,
                 supportsSourceMapPause, instrBp, gated, resumeCmds, targetPaused,
                 executionContexts, transportVars>>

\* ThreadManager.setScriptSourceMapHandler(handler)
SetScriptSourceMapHandler(handler) ==
  /\ scriptWithSourceMapHandler # handler
  /\ scriptWithSourceMapHandler' = handler
  /\ UNCHANGED <<lastThreadId, threads, pauseOnExceptionsState, customBreakpoints,
                 calls, lastReturn, treeVars, configVars, listenVars, scriptVars, pauseVars,
                 outputVars, sentVars, transportVars>>
(* --------------------------- Thread lifecycle -------------------------- *)
IsPaused(t) == pausedDetails[t] # NoDetails

\* mutation: _executionContextsCleared leaves the details
DetailsAfterClearedKept(t) == pausedDetails

\* Thread._onResumed, as run by _executionContextsCleared `if (this._pausedDetails)`
DetailsAfterCleared(t) ==
  IF IsPaused(t) THEN [pausedDetails EXCEPT ![t] = NoDetails] ELSE pausedDetails

VariablesAfterCleared(t) ==
  IF IsPaused(t) THEN [pausedVariables EXCEPT ![t] = FALSE] ELSE pausedVariables

\* Thread._reportResumed, as run by _executionContextsCleared through _onResumed
DapRunAfterCleared(t) ==
  IF IsPaused(t) THEN [dapRun EXCEPT ![t] = "continued"] ELSE dapRun

\* the notification that precedes the last one, after the same call
DapRunBeforeAfterCleared(t) ==
  IF IsPaused(t) THEN [dapRunBefore EXCEPT ![t] = dapRun[t]] ELSE dapRunBefore

\* Thread.initialize()
Initialize(t) ==
  /\ Live(t)
  /\ t \notin initialized
  /\ initialized' = initialized \cup {t}
  /\ subscribed' = [subscribed EXCEPT ![t] = EventNames]
  /\ instrBp' = IF scriptPausedTimeout THEN [instrBp EXCEPT ![t] = "pending"] ELSE instrBp
  /\ sentPoe' = [sentPoe EXCEPT ![t] = UpdatePauseOnExceptionsState(pauseOnExceptionsState)]
  /\ appliedBp' = [appliedBp EXCEPT ![t] =
                     UpdateCustomBreakpoints(@, supportsCustomBreakpoints[t],
                                             customBreakpoints, TRUE)]
  /\ bpInFlight' = [bpInFlight EXCEPT ![t] =
                      InFlightAfter(@, supportsCustomBreakpoints[t], customBreakpoints)]
  /\ bpReported' = [bpReported EXCEPT ![t] =
                      ReportedAfter(@, supportsCustomBreakpoints[t], customBreakpoints)]
  /\ dapThread' = [dapThread EXCEPT ![t] = "started"]
  /\ UNCHANGED <<managerVars, treeVars, configVars, eventListeners, scriptVars, outputVars,
                 dapRun, dapRunBefore, dapStopped, pausedDetails, pausedVariables, pausedForSourceMapScriptId,
                 supportsSourceMapPause, gated, mapWaits, handlerCalls, resumeCmds,
                 targetPaused, executionContexts, transportVars>>

\* mutation: the answer is not read
SupportsAfterAnswerAlways(result) == TRUE

\* line 486: this._supportsSourceMapPause = !!result
SupportsAfterAnswer(result) == result

\* the answer to Debugger.setInstrumentationBreakpoint, lines 485-487
InstrumentationBreakpointAnswer(t, result) ==
  /\ instrBp[t] = "pending"
  /\ instrBp' = [instrBp EXCEPT ![t] = IF result THEN "accepted" ELSE "rejected"]
  /\ supportsSourceMapPause' = [supportsSourceMapPause EXCEPT ![t] = SupportsAfterAnswer(result)]
  /\ UNCHANGED <<managerVars, treeVars, configVars, listenVars, scriptVars, outputVars,
                 sentVars, pausedDetails, pausedVariables, pausedForSourceMapScriptId,
                 gated, mapWaits, handlerCalls, resumeCmds, targetPaused, executionContexts,
                 transportVars>>

\* Thread.dispose()
Dispose(t) ==
  /\ Live(t)
  /\ childThreads' =
       IF parentThread[t] # NoThread
       THEN [childThreads EXCEPT ![parentThread[t]] = DisposeChildList(@, t, childThreads[t])]
       ELSE childThreads
  /\ scripts' = [scripts EXCEPT ![t] = NoScripts]        \* _removeAllScripts
  /\ sources' = RemoveAllScripts(t)
  /\ threads' = RemoveThread(threads, t)                 \* manager._removeThread
  /\ dapThread' = [dapThread EXCEPT ![t] = "exited"]
  /\ subscribed' = [subscribed EXCEPT ![t] = @ \ eventListeners[t]]
  /\ pausedDetails' = DetailsAfterCleared(t)             \* _executionContextsCleared
  /\ pausedVariables' = VariablesAfterCleared(t)
  /\ dapRun' = DapRunAfterCleared(t)
  /\ dapRunBefore' = DapRunBeforeAfterCleared(t)
  /\ executionContexts' = [executionContexts EXCEPT ![t] = {}]
  /\ UNCHANGED <<lastThreadId, pauseOnExceptionsState, customBreakpoints,
                 scriptWithSourceMapHandler, calls, lastReturn, parentThread, configVars,
                 eventListeners, initialized, scriptObjs, outputVars, sentPoe, appliedBp,
                 dapStopped, bpInFlight, bpReported,
                 pausedForSourceMapScriptId, supportsSourceMapPause, instrBp, gated,
                 mapWaits, handlerCalls, resumeCmds, targetPaused, transportVars>>

(* ----------------------------- output slots ---------------------------- *)
RECURSIVE SlotCount(_)
SlotCount(S) ==
  IF S = {} THEN 0
  ELSE LET t == CHOOSE x \in S : TRUE IN Len(slots[t]) + SlotCount(S \ {t})

\* slots claimed so far, over all threads
TotalSlots == SlotCount(ThreadIds)

\* Thread.claimOutputSlot(): a new unit at the end of the chain, its timer armed;
\* `resolved` is the state of the promise p, which the delivery function and the
\* timer both resolve (the later of the two calls of callback changes nothing);
\* payload "unset" = the delivery function has not been called
NewSlot == [payload |-> "unset", called |-> FALSE, ran |-> FALSE, resolved |-> FALSE]

\* the delivery function up to `await slot`
Called(slot, payload) == [slot EXCEPT !.payload = payload, !.called = TRUE]

\* mutation: no payload is suppressed
EmitsAlways(payload, dirty) == payload # "none"

\* lines 503-510: whether the delivery function calls dap.output
Emits(payload, dirty) ==
  /\ payload # "none"
  /\ ~(payload = "clear" /\ ~dirty)

\* line 508
DirtyAfter(payload, dirty) == IF Emits(payload, dirty) THEN payload # "clear" ELSE dirty

\* the promise jobs that follow a step: every delivery function whose
\* `await slot` (line 502) is over runs before the next message or timer, the
\* earlier slot first (the chain of slot k + 1 resolves after the chain of slot
\* k), and by resolving its own p (line 511) wakes the called slots behind it.
\* Slot k of `chain` runs in these jobs if every slot before it is resolved or
\* about to run.
Runs(chain, k) ==
  /\ chain[k].called
  /\ ~chain[k].ran
  /\ \A j \in 1 .. (k - 1) : chain[j].resolved \/ chain[j].called

\* line 511, `callback()`, at the end of each delivery function that ran
ChainAfter(chain) ==
  [k \in DOMAIN chain |->
     IF Runs(chain, k) THEN [chain[k] EXCEPT !.ran = TRUE, !.resolved = TRUE] ELSE chain[k]]

\* manager._consoleIsDirty after the delivery functions of slots 1 .. k have run
RECURSIVE DirtyAfterJobs(_, _, _)
DirtyAfterJobs(chain, dirty, k) ==
  IF k = 0 THEN dirty
  ELSE IF Runs(chain, k)
       THEN DirtyAfter(chain[k].payload, DirtyAfterJobs(chain, dirty, k - 1))
       ELSE DirtyAfterJobs(chain, dirty, k - 1)

\* the dap.output events after the delivery functions of slots 1 .. k have run
RECURSIVE OutputAfterJobs(_, _, _, _, _)
OutputAfterJobs(chain, dirty, out, t, k) ==
  IF k = 0 THEN out
  ELSE IF Runs(chain, k) /\ Emits(chain[k].payload, DirtyAfterJobs(chain, dirty, k - 1))
       THEN Append(OutputAfterJobs(chain, dirty, out, t, k - 1),
                   [thread |-> t, slot |-> k, payload |-> chain[k].payload])
       ELSE OutputAfterJobs(chain, dirty, out, t, k - 1)

\* the output variables after a step that left thread t's chain as `chain`
OutputAfter(t, chain) ==
  /\ slots' = [slots EXCEPT ![t] = ChainAfter(chain)]
  /\ consoleIsDirty' = DirtyAfterJobs(chain, consoleIsDirty, Len(chain))
  /\ dapOutput' = OutputAfterJobs(chain, consoleIsDirty, dapOutput, t, Len(chain))

\* the 'executionContextsCleared' listener of initialize(), lines 445-450
ExecutionContextsCleared(t) ==
  /\ "executionContextsCleared" \in subscribed[t]
  /\ scripts' = [scripts EXCEPT ![t] = NoScripts]
  /\ sources' = RemoveAllScripts(t)
  /\ pausedDetails' = DetailsAfterCleared(t)
  /\ pausedVariables' = VariablesAfterCleared(t)
  /\ dapRun' = DapRunAfterCleared(t)
  /\ dapRunBefore' = DapRunBeforeAfterCleared(t)
  /\ executionContexts' = [executionContexts EXCEPT ![t] = {}]
  /\ OutputAfter(t, Append(slots[t], Called(NewSlot, "clear")))
  /\ UNCHANGED <<managerVars, treeVars, configVars, listenVars, scriptObjs,
                 sentPoe, appliedBp, dapThread, dapStopped, bpInFlight, bpReported,
                 pausedForSourceMapScriptId, supportsSourceMapPause, instrBp, gated, mapWaits,
                 handlerCalls, resumeCmds, targetPaused, transportVars>>

\* the listeners that claim a slot and compute the payload afterwards:
\* 'consoleAPICalled' (line 452), 'exceptionThrown' (line 456), _queryObjects (line 885)
ClaimSlot(t, event) ==
  /\ event \in subscribed[t]
  /\ slots' = [slots EXCEPT ![t] = Append(@, NewSlot)]
  /\ UNCHANGED <<managerVars, treeVars, configVars, listenVars, scriptVars, pauseVars,
                 consoleIsDirty, dapOutput, sentVars, transportVars>>

ConsoleAPICalled(t) == ClaimSlot(t, "consoleAPICalled")

ExceptionThrown(t) == ClaimSlot(t, "exceptionThrown")

InspectRequestedQueryObjects(t) == ClaimSlot(t, "inspectRequested")

\* slot(payload): the call of a delivery function whose payload is ready;
\* "none" is `undefined` (console 'endGroup', or slot() in _queryObjects)
Deliver(t, k, payload) ==
  /\ k \in DOMAIN slots[t]
  /\ ~slots[t][k].called
  /\ OutputAfter(t, [slots[t] EXCEPT ![k] = Called(@, payload)])
  /\ UNCHANGED <<managerVars, treeVars, configVars, listenVars, scriptVars, pauseVars,
                 sentVars, transportVars>>

\* mutation: the timer calls nothing
TimerFiredIdle(slot) == slot

\* line 516, `setTimeout(callback!, ...)`: the slot once its timer has fired
TimerFired(slot) == [slot EXCEPT !.resolved = TRUE]

\* the timer of line 516 fires before the delivery function has resolved p
SlotTimeout(t, k) ==
  /\ k \in DOMAIN slots[t]
  /\ ~slots[t][k].resolved
  /\ OutputAfter(t, [slots[t] EXCEPT ![k] = TimerFired(@)])
  /\ UNCHANGED <<managerVars, treeVars, configVars, listenVars, scriptVars, pauseVars,
                 sentVars, transportVars>>

(* ------------------------- manager broadcasts -------------------------- *)
LiveSet == Range(threads)

\* what a target command resolves to: a result object, or undefined when the
\* command failed
CommandAnswers == {"result", "undefined"}

\* Thread._updatePauseOnExceptionsState, line 592: `!!await ...setPauseOnExceptions(..)`
PauseOnExceptionsUpdated(answer) == answer # "undefined"

\* mutation: the call fails when a thread reported false
CallOutcomeStrict(failed) == IF failed THEN "rejected" ELSE "fulfilled"

\* `await Promise.all(promises)`, lines 296, 306 and 316: every promise resolves
\* to a boolean, which the manager does not read
CallOutcome(failed) == "fulfilled"

\* ThreadManager.setPauseOnExceptionsState(state) up to `await Promise.all(promises)`;
\* with no thread the call returns at once
SetPauseOnExceptionsState(state) ==
  /\ pauseOnExceptionsState' = state
  /\ sentPoe' = [t \in ThreadIds |->
                   IF Live(t)
                   THEN UpdatePauseOnExceptionsState(
                          PolicyAtBroadcast(pauseOnExceptionsState, state))
                   ELSE sentPoe[t]]
  /\ calls' = IF LiveSet = {} THEN calls
              ELSE Append(calls, [op |-> "setPauseOnExceptions", awaiting |-> LiveSet,
                                  failed |-> FALSE])
  /\ lastReturn' = IF LiveSet = {} THEN CallOutcome(FALSE) ELSE lastReturn
  /\ UNCHANGED <<lastThreadId, threads, customBreakpoints, scriptWithSourceMapHandler,
                 treeVars, configVars, listenVars, scriptVars, pauseVars, outputVars,
                 appliedBp, dapThread, dapRun, dapRunBefore, dapStopped, bpInFlight, bpReported, transportVars>>

\* the calls without the i-th
WithoutCall(list, i) == SubSeq(list, 1, i - 1) \o SubSeq(list, i + 1, Len(list))

\* the target of thread t answers the setPauseOnExceptions command of the i-th
\* pending call; with the last answer Promise.all resolves and the call returns
AckPauseOnExceptions(i, t, answer) ==
  LET failed == calls[i].failed \/ ~PauseOnExceptionsUpdated(answer) IN
  /\ i \in DOMAIN calls
  /\ t \in calls[i].awaiting
  /\ calls' = IF calls[i].awaiting = {t} THEN WithoutCall(calls, i)
              ELSE [calls EXCEPT ![i].awaiting = @ \ {t}, ![i].failed = failed]
  /\ lastReturn' = IF calls[i].awaiting = {t} THEN CallOutcome(failed) ELSE lastReturn
  /\ UNCHANGED <<lastThreadId, threads, pauseOnExceptionsState, customBreakpoints,
                 scriptWithSourceMapHandler, treeVars, configVars, listenVars,
                 scriptVars, pauseVars, outputVars, sentVars, transportVars>>

\* the target of thread t answers the command that breakpoint.apply sent for id
AckCustomBreakpoint(t, id) ==
  /\ id \in bpInFlight[t]
  /\ bpInFlight' = [bpInFlight EXCEPT ![t] = @ \ {id}]
  /\ UNCHANGED <<managerVars, treeVars, configVars, listenVars, scriptVars, pauseVars,
                 outputVars, sentPoe, appliedBp, dapThread, dapRun, dapRunBefore, dapStopped, bpReported,
                 transportVars>>

\* ThreadManager.enableCustomBreakpoints(ids); every updateCustomBreakpoint promise is
\* already resolved, so the call returns without waiting for a target
EnableCustomBreakpoints(ids) ==
  /\ customBreakpoints' = EnableMembership(customBreakpoints, ids)
  /\ appliedBp' = [t \in ThreadIds |->
                     IF Live(t)
                     THEN UpdateCustomBreakpoints(appliedBp[t], supportsCustomBreakpoints[t],
                                                  ids, TRUE)
                     ELSE appliedBp[t]]
  /\ bpInFlight' = [t \in ThreadIds |->
                      IF Live(t)
                      THEN InFlightAfter(bpInFlight[t], supportsCustomBreakpoints[t], ids)
                      ELSE bpInFlight[t]]
  /\ bpReported' = [t \in ThreadIds |->
                      IF Live(t)
                      THEN ReportedAfter(bpReported[t], supportsCustomBreakpoints[t], ids)
                      ELSE bpReported[t]]
  /\ lastReturn' = CallOutcome(FALSE)
  /\ UNCHANGED <<lastThreadId, threads, pauseOnExceptionsState, scriptWithSourceMapHandler,
                 calls, treeVars, configVars, listenVars, scriptVars, pauseVars, outputVars,
                 sentPoe, dapThread, dapRun, dapRunBefore, dapStopped, transportVars>>

\* ThreadManager.disableCustomBreakpoints(ids)
DisableCustomBreakpoints(ids) ==
  /\ customBreakpoints' = DisableMembership(customBreakpoints, ids)
  /\ appliedBp' = [t \in ThreadIds |->
                     IF Live(t)
                     THEN UpdateCustomBreakpoints(appliedBp[t], supportsCustomBreakpoints[t],
                                                  ids, FALSE)
                     ELSE appliedBp[t]]
  /\ bpInFlight' = [t \in ThreadIds |->
                      IF Live(t)
                      THEN InFlightAfter(bpInFlight[t], supportsCustomBreakpoints[t], ids)
                      ELSE bpInFlight[t]]
  /\ bpReported' = [t \in ThreadIds |->
                      IF Live(t)
                      THEN ReportedAfter(bpReported[t], supportsCustomBreakpoints[t], ids)
                      ELSE bpReported[t]]
  /\ lastReturn' = CallOutcome(FALSE)
  /\ UNCHANGED <<lastThreadId, threads, pauseOnExceptionsState, scriptWithSourceMapHandler,
                 calls, treeVars, configVars, listenVars, scriptVars, pauseVars, outputVars,
                 sentPoe, dapThread, dapRun, dapRunBefore, dapStopped, transportVars>>

(* ------------------------------- pauses -------------------------------- *)
\* Cdp.Debugger.PausedEvent, the fields the thread reads:
\*   reason, scriptId (data['scriptId']), eventName (data['eventName']),
\*   hasData (event.data is set), hitBreakpoints (non-empty)
PausedEvent(reason, scriptId, eventName, hasData, hitBreakpoints) ==
  [reason |-> reason, scriptId |-> scriptId, eventName |-> eventName,
   hasData |-> hasData, hitBreakpoints |-> hitBreakpoints]

Details(reason, description) ==
  [reason |-> reason, description |-> description, text |-> "none", exception |-> FALSE]

\* mutation: an id the catalog does not have yields no details
ResolveEventListenerBreakpointDetailsStrict(event) ==
  LET id == IF event.hasData THEN event.eventName ELSE "" IN
  IF id \in CatalogIds
  THEN [reason |-> "function breakpoint", description |-> "short", text |-> "long",
        exception |-> FALSE]
  ELSE NoDetails

\* Thread._resolveEventListenerBreakpointDetails
ResolveEventListenerBreakpointDetails(event) ==
  LET id == IF event.hasData THEN event.eventName ELSE "" IN
  IF id \in CatalogIds
  THEN [reason |-> "function breakpoint", description |-> "short", text |-> "long",
        exception |-> FALSE]
  ELSE Details("function breakpoint", "Paused on event listener")

\* mutation: the default case does not look at the hit breakpoints
DefaultPausedDetailsStep(event) == Details("step", "Paused")

\* the default case of _createPausedDetails, lines 668-678
DefaultPausedDetails(event) ==
  IF event.hitBreakpoints
  THEN Details("breakpoint", "Paused on breakpoint")
  ELSE Details("step", "Paused")

\* Thread._createPausedDetails
CreatePausedDetails(event) ==
  CASE event.reason = "assert" -> Details("exception", "Paused on assert")
    [] event.reason = "debugCommand" -> Details("pause", "Paused on debug() call")
    [] event.reason = "DOM" -> Details("data breakpoint", "Paused on DOM breakpoint")
    [] event.reason = "EventListener" -> ResolveEventListenerBreakpointDetails(event)
    [] event.reason = "exception" ->
         [Details("exception", "Paused on exception") EXCEPT !.exception = event.hasData]
    [] event.reason = "promiseRejection" -> Details("exception", "Paused on promise rejection")
    [] event.reason = "instrumentation" ->
         Details("function breakpoint", "Paused on instrumentation breakpoint")
    [] event.reason = "XHR" -> Details("data breakpoint", "Paused on XMLHttpRequest or fetch")
    [] event.reason = "OOM" -> Details("exception", "Paused before Out Of Memory exception")
    [] OTHER -> DefaultPausedDetails(event)

\* Thread._reportPaused, lines 611-621: the dap.stopped notification
ReportPaused(details) ==
  [reason |-> details.reason, description |-> details.description, text |-> details.text]

\* a listener that hands no pause to _handleSourceMapPause
IsSourceMapPauseNever(event) == FALSE

\* line 470: the pause is handled by _handleSourceMapPause
IsSourceMapPause(event) ==
  event.reason = "instrumentation" /\ event.hasData /\ event.scriptId # NoScriptId

\* _handleSourceMapPause, lines 829-831: the invocation ends with Debugger.resume
Finished(g) == [g EXCEPT !.pc = "done", !.resumes = @ + 1]

\* the 'paused' listener of initialize(), lines 469-477, with the part of
\* _handleSourceMapPause that runs before its first await
Paused(t, event) ==
  LET script == scripts[t][event.scriptId]
      g == [thread |-> t, scriptId |-> event.scriptId, script |-> script,
            sources |-> "pending", pc |-> "race", resumes |-> 0]
  IN
  /\ "paused" \in subscribed[t]
  /\ ~targetPaused[t]
  /\ targetPaused' = [targetPaused EXCEPT ![t] = TRUE]
  /\ IF IsSourceMapPause(event)
     THEN /\ IF script # 0
             THEN /\ gated' = Append(gated, g)
                  /\ pausedForSourceMapScriptId' =
                       [pausedForSourceMapScriptId EXCEPT ![t] = event.scriptId]
                  /\ UNCHANGED resumeCmds
             ELSE /\ gated' = Append(gated, Finished(g))
                  /\ pausedForSourceMapScriptId' =
                       [pausedForSourceMapScriptId EXCEPT ![t] = NoScriptId]
                  /\ resumeCmds' = [resumeCmds EXCEPT ![t] = @ + 1]
          /\ UNCHANGED <<pausedDetails, pausedVariables, dapRun, dapRunBefore, dapStopped>>
     ELSE /\ pausedDetails' = [pausedDetails EXCEPT ![t] = CreatePausedDetails(event)]
          /\ pausedVariables' = [pausedVariables EXCEPT ![t] = TRUE]
          /\ dapRun' = [dapRun EXCEPT ![t] = "stopped"]
          /\ dapRunBefore' = [dapRunBefore EXCEPT ![t] = dapRun[t]]
          /\ dapStopped' = [dapStopped EXCEPT ![t] =
                 [count |-> @.count + 1, last |-> ReportPaused(CreatePausedDetails(event))]]
          /\ UNCHANGED <<gated, pausedForSourceMapScriptId, resumeCmds>>
  /\ UNCHANGED <<managerVars, treeVars, configVars, listenVars, scriptVars, outputVars,
                 sentPoe, appliedBp, dapThread, bpInFlight, bpReported, supportsSourceMapPause, instrBp, mapWaits,
                 handlerCalls, executionContexts, transportVars>>

\* _handleSourceMapPause after `await Promise.race(...)`: the race is won by
\* waitForSourceMapSources ("sources"), by the timer ("timeout": []), or
\* waitForSourceMapSources is rejected ("rejected")
RaceSettled(i, outcome) ==
  LET g == gated[i] IN
  /\ i \in DOMAIN gated
  /\ g.pc = "race"
  /\ IF outcome = "rejected"
     THEN /\ gated' = [gated EXCEPT ![i].pc = "failed", ![i].sources = outcome]
          /\ UNCHANGED <<handlerCalls, pausedForSourceMapScriptId, resumeCmds>>
     ELSE IF scriptWithSourceMapHandler
     THEN /\ gated' = [gated EXCEPT ![i].pc = "handler", ![i].sources = outcome]
          /\ handlerCalls' = [handlerCalls EXCEPT ![g.script] = @ + 1]
          /\ UNCHANGED <<pausedForSourceMapScriptId, resumeCmds>>
     ELSE /\ gated' = [gated EXCEPT ![i] = Finished([g EXCEPT !.sources = outcome])]
          /\ pausedForSourceMapScriptId' =
               [pausedForSourceMapScriptId EXCEPT ![g.thread] = NoScriptId]
          /\ resumeCmds' = [resumeCmds EXCEPT ![g.thread] = @ + 1]
          /\ UNCHANGED handlerCalls
  /\ UNCHANGED <<managerVars, treeVars, configVars, listenVars, scriptVars, outputVars,
                 sentVars, pausedDetails, pausedVariables, supportsSourceMapPause, instrBp,
                 mapWaits, targetPaused, executionContexts, transportVars>>

\* _handleSourceMapPause after `await this.manager._scriptWithSourceMapHandler(...)`
HandlerSettled(i, fulfilled) ==
  LET g == gated[i] IN
  /\ i \in DOMAIN gated
  /\ g.pc = "handler"
  /\ IF fulfilled
     THEN /\ gated' = [gated EXCEPT ![i] = Finished(g)]
          /\ pausedForSourceMapScriptId' =
               [pausedForSourceMapScriptId EXCEPT ![g.thread] = NoScriptId]
          /\ resumeCmds' = [resumeCmds EXCEPT ![g.thread] = @ + 1]
     ELSE /\ gated' = [gated EXCEPT ![i].pc = "failed"]
          /\ UNCHANGED <<pausedForSourceMapScriptId, resumeCmds>>
  /\ UNCHANGED <<managerVars, treeVars, configVars, listenVars, scriptVars, outputVars,
                 sentVars, pausedDetails, pausedVariables, supportsSourceMapPause, instrBp,
                 mapWaits, handlerCalls, targetPaused, executionContexts, transportVars>>

\* the target takes a Debugger.resume command; a paused target resumes and its
\* 'resumed' event runs Thread._onResumed (line 478)
TargetResumes(t) ==
  /\ resumeCmds[t] > 0
  /\ resumeCmds' = [resumeCmds EXCEPT ![t] = @ - 1]
  /\ targetPaused' = [targetPaused EXCEPT ![t] = FALSE]
  /\ IF targetPaused[t] /\ "resumed" \in subscribed[t]
     THEN /\ pausedDetails' = [pausedDetails EXCEPT ![t] = NoDetails]
          /\ pausedVariables' = [pausedVariables EXCEPT ![t] = FALSE]
          /\ dapRun' = [dapRun EXCEPT ![t] = "continued"]
          /\ dapRunBefore' = [dapRunBefore EXCEPT ![t] = dapRun[t]]
     ELSE UNCHANGED <<pausedDetails, pausedVariables, dapRun, dapRunBefore>>
  /\ UNCHANGED <<managerVars, treeVars, configVars, listenVars, scriptVars, outputVars,
                 sentPoe, appliedBp, dapThread, dapStopped, bpInFlight, bpReported,
                 pausedForSourceMapScriptId, supportsSourceMapPause, instrBp, gated, mapWaits,
                 handlerCalls, executionContexts, transportVars>>

\* Thread.resume(): the client's continue request sends Debugger.resume
Resume(t) ==
  /\ Live(t)
  /\ resumeCmds' = [resumeCmds EXCEPT ![t] = @ + 1]
  /\ UNCHANGED <<managerVars, treeVars, configVars, listenVars, scriptVars, outputVars,
                 sentVars, pausedDetails, pausedVariables, pausedForSourceMapScriptId,
                 supportsSourceMapPause, instrBp, gated, mapWaits, handlerCalls,
                 targetPaused, executionContexts, transportVars>>

\* ThreadManager.refreshStackTraces(), lines 249-259: every registered thread
\* that has PausedDetails reports resumed and then paused again
Refreshed(t) == Live(t) /\ IsPaused(t)

RefreshStackTraces ==
  /\ dapRun' = [t \in ThreadIds |-> IF Refreshed(t) THEN "stopped" ELSE dapRun[t]]
  /\ dapRunBefore' = [t \in ThreadIds |-> IF Refreshed(t) THEN "continued" ELSE dapRunBefore[t]]
  /\ dapStopped' = [t \in ThreadIds |->
                      IF Refreshed(t)
                      THEN [count |-> dapStopped[t].count + 1,
                            last |-> ReportPaused(pausedDetails[t])]
                      ELSE dapStopped[t]]
  /\ UNCHANGED <<managerVars, treeVars, configVars, listenVars, scriptVars, pauseVars,
                 outputVars, sentPoe, appliedBp, dapThread, bpInFlight, bpReported,
                 transportVars>>

(* ----------------------------- thread labels --------------------------- *)
\* ThreadManager.topLevelThreads: threads().filter(t => !t.parentThread)
TopLevelThreads == SelectSeq(threads, LAMBDA t : parentThread[t] = NoThread)

RECURSIVE Visit(_, _), VisitAll(_, _)
\* `visit` of threadLabels, lines 271-278; indentation is the number of
\* non-breaking spaces in front of the name
Visit(thread, indentation) ==
  <<[id |-> thread, indentation |-> indentation]>>
    \o VisitAll(childThreads[thread], indentation + 4)

\* the loops of lines 276 and 279 over a list of threads
VisitAll(list, indentation) ==
  IF list = <<>> THEN <<>>
  ELSE Visit(Head(list), indentation) \o VisitAll(Tail(list), indentation)

\* ThreadManager.threadLabels
ThreadLabels == VisitAll(TopLevelThreads, 0)

(* --------------------------- WebSocketTransport ------------------------ *)
\* a url: the characters of its scheme and of "://", then its host
Hosts == {"localhost", "example.com"}
LoopbackHosts == {"localhost"}
TransportUrls ==
  {<<"w", "s", ":", "/", "/", host>> : host \in Hosts}
  \cup {<<"w", "s", "s", ":", "/", "/", host>> : host \in Hosts}

\* String.prototype.startsWith
StartsWith(str, prefix) ==
  Len(str) >= Len(prefix) /\ SubSeq(str, 1, Len(prefix)) = prefix

\* line 28: const isSecure = !url.startsWith('ws://')
IsSecure(url) == ~StartsWith(url, <<"w", "s", ":", "/", "/">>)

\* isLoopback(url): whether the host of the url is a loopback address
IsLoopback(url) == url[Len(url)] \in LoopbackHosts

\* mutation: validation is disabled for every secure connection
RejectUnauthorizedSecure(isSecure, loopback) == ~isSecure

\* line 37: rejectUnauthorized: !(isSecure && targetAddressIsLoopback)
RejectUnauthorized(isSecure, loopback) == ~(isSecure /\ loopback)

\* lines 33-39: new WebSocket(url, [], {...})
NewWebSocket(url, loopback) ==
  [rejectUnauthorized |-> RejectUnauthorized(IsSecure(url), loopback),
   outcome |-> "pending", closed |-> FALSE]

\* WebSocketTransport.create(url, cancellationToken) up to `await isLoopback(url)`
TransportCreate(url) ==
  /\ createPc = "idle"
  /\ wsUrl' = url
  /\ createPc' = "lookup"
  /\ UNCHANGED <<managerVars, treeVars, configVars, listenVars, scriptVars, pauseVars,
                 outputVars, sentVars, cancellationRequested, targetAddressIsLoopback,
                 attempts, thrown, ws, readyState, endFired, disposes, transmitted>>

\* isLoopback(url) answers; the loop is entered and the first WebSocket made
LoopbackAnswered ==
  /\ createPc = "lookup"
  /\ targetAddressIsLoopback' = IsLoopback(wsUrl)
  /\ attempts' = <<NewWebSocket(wsUrl, IsLoopback(wsUrl))>>
  /\ createPc' = "attempt"
  /\ UNCHANGED <<managerVars, treeVars, configVars, listenVars, scriptVars, pauseVars,
                 outputVars, sentVars, wsUrl, cancellationRequested, thrown, ws, readyState,
                 endFired, disposes, transmitted>>

\* the owner of the cancellation token requests cancellation
Cancel ==
  /\ ~cancellationRequested
  /\ cancellationRequested' = TRUE
  /\ UNCHANGED <<managerVars, treeVars, configVars, listenVars, scriptVars, pauseVars,
                 outputVars, sentVars, wsUrl, createPc, targetAddressIsLoopback, attempts,
                 thrown, ws, readyState, endFired, disposes, transmitted>>

\* line 43, the 'open' listener: resolve(new WebSocketTransport(ws)); the
\* constructor (lines 60-72) keeps the WebSocket
AttemptOpened ==
  /\ createPc = "attempt"
  /\ attempts' = [attempts EXCEPT ![Len(attempts)].outcome = "open"]
  /\ createPc' = "returned"
  /\ ws' = "set"
  /\ readyState' = "open"
  /\ UNCHANGED <<managerVars, treeVars, configVars, listenVars, scriptVars, pauseVars,
                 outputVars, sentVars, wsUrl, cancellationRequested, targetAddressIsLoopback,
                 thrown, endFired, disposes, transmitted>>

\* how the promise of lines 41-47 is rejected: the 'error' listener (line 44),
\* the 2000 ms of withTimeout, or the cancellation of the caller's token
FailureKinds(cancelled) ==
  {"error", "timeout"} \cup (IF cancelled THEN {"cancelled"} ELSE {})

\* mutation: the error of a failed attempt is always thrown
ThrowsAfterFailureAlways(cancelled) == TRUE

\* line 53: if (cancellationToken.isCancellationRequested) throw err
ThrowsAfterFailure(cancelled) == cancelled

\* lines 48-56: the attempt fails; .catch closes the WebSocket and rethrows,
\* the catch block throws or lets the loop make the next WebSocket
AttemptFailed(kind) ==
  LET n == Len(attempts)
      failed == [attempts EXCEPT ![n].outcome = kind, ![n].closed = TRUE]
  IN
  /\ createPc = "attempt"
  /\ kind \in FailureKinds(cancellationRequested)
  /\ IF ThrowsAfterFailure(cancellationRequested)
     THEN /\ attempts' = failed
          /\ thrown' = [attempt |-> n, kind |-> kind]
          /\ createPc' = "thrown"
     ELSE /\ attempts' = Append(failed, NewWebSocket(wsUrl, targetAddressIsLoopback))
          /\ UNCHANGED <<thrown, createPc>>
  /\ UNCHANGED <<managerVars, treeVars, configVars, listenVars, scriptVars, pauseVars,
                 outputVars, sentVars, wsUrl, cancellationRequested, targetAddressIsLoopback,
                 ws, readyState, endFired, disposes, transmitted>>

\* WebSocketTransport.send, line 78: this._ws?.send(message); a WebSocket
\* that is not open transmits nothing
TransportSend ==
  /\ ws # "none"
  /\ transmitted' = IF ws = "set" /\ readyState = "open" THEN transmitted + 1 ELSE transmitted
  /\ UNCHANGED <<managerVars, treeVars, configVars, listenVars, scriptVars, pauseVars,
                 outputVars, sentVars, wsUrl, cancellationRequested, createPc,
                 targetAddressIsLoopback, attempts, thrown, ws, readyState, endFired, disposes>>

\* mutation: dispose() never waits
DisposeResolvesNowAlways(handle) == TRUE

\* line 86: if (!this._ws) return resolve()
DisposeResolvesNow(handle) == handle # "set"

\* WebSocketTransport.dispose, lines 84-93
TransportDispose ==
  /\ ws # "none"
  /\ IF DisposeResolvesNow(ws)
     THEN /\ disposes' = Append(disposes, "resolved")
          /\ UNCHANGED readyState
     ELSE /\ disposes' = Append(disposes, "pending")          \* addEventListener('close', ..)
          /\ readyState' = IF readyState = "open" THEN "closing" ELSE readyState  \* ws.close()
  /\ UNCHANGED <<managerVars, treeVars, configVars, listenVars, scriptVars, pauseVars,
                 outputVars, sentVars, wsUrl, cancellationRequested, createPc,
                 targetAddressIsLoopback, attempts, thrown, ws, endFired, transmitted>>

\* the WebSocket's 'close' event (the close handshake is over, or the
\* connection broke): the listener of lines 65-68, then those of line 90
CloseEvent ==
  /\ ws = "set"
  /\ readyState \in {"open", "closing"}
  /\ readyState' = "closed"
  /\ endFired' = endFired + 1
  /\ ws' = "undefined"
  /\ disposes' = [i \in DOMAIN disposes |-> "resolved"]
  /\ UNCHANGED <<managerVars, treeVars, configVars, listenVars, scriptVars, pauseVars,
                 outputVars, sentVars, wsUrl, cancellationRequested, createPc,
                 targetAddressIsLoopback, attempts, thrown, transmitted>>

(* ======================= thread tree specification ===================== *)
InitTree == InitManager /\ scriptPausedTimeout = FALSE

NextTree ==
  \/ \E parent \in {NoThread} \cup LiveSet :
       lastThreadId < MaxTreeThreads /\ CreateThread(parent, FALSE)
  \/ \E t \in ThreadIds : Dispose(t)

SpecTree == InitTree /\ [][NextTree]_vars

\* the step is Thread.dispose() of t
DisposeStep(t) == Live(t) /\ ~Live(t)'

\* the position of x in list (0 when absent)
Position(list, x) == IndexOf(list, x) + 1

\* the members of `part` occur in `list`, in the order they have in `part`
InOrderWithin(part, list) ==
  /\ \A i \in DOMAIN part : Position(list, part[i]) > 0
  /\ \A i, j \in DOMAIN part :
       i < j => Position(list, part[i]) < Position(list, part[j])

\* C5: after dispose() of a thread T, every child of T has T's former parent as
\* its parentThread, the children keep their relative order in that parent's
\* child list, and no child is left without a live parent when T had one.
C5_ChildrenReparented ==
  [][\A t \in ThreadIds :
       DisposeStep(t) =>
         /\ \A c \in Range(childThreads[t]) : parentThread'[c] = parentThread[t]
         /\ parentThread[t] # NoThread =>
              /\ InOrderWithin(childThreads[t], childThreads'[parentThread[t]])
              /\ \A c \in Range(childThreads[t]) :
                   parentThread'[c] # NoThread /\ parentThread'[c] \in Range(threads')
    ]_vars

\* C6: when a thread T with parent P is disposed, T's children take T's place
\* in P's child list: the siblings before T stay before them, the siblings
\* after T stay after them.
C6_ChildrenTakeParentsPlace ==
  [][\A t \in ThreadIds :
       (DisposeStep(t) /\ parentThread[t] # NoThread) =>
         LET list == childThreads[parentThread[t]]
             at   == Position(list, t)
         IN  childThreads'[parentThread[t]] =
               SubSeq(list, 1, at - 1) \o childThreads[t] \o SubSeq(list, at + 1, Len(list))
    ]_vars
(* ================== exception-pause policy specification =============== *)
InitPolicy == InitManager /\ scriptPausedTimeout = FALSE

NextPolicy ==
  \/ lastThreadId < MaxMgrThreads /\ CreateThread(NoThread, FALSE)
  \/ \E t \in ThreadIds : Initialize(t)
  \/ \E t \in ThreadIds : Dispose(t)
  \/ \E state \in PauseOnExceptionsStates :
       Len(calls) < MaxCalls /\ SetPauseOnExceptionsState(state)
  \/ \E i \in DOMAIN calls, t \in ThreadIds : AckPauseOnExceptions(i, t, "result")

SpecPolicy == InitPolicy /\ [][NextPolicy]_vars

(* ==================== custom breakpoint specification ================== *)
InitBreakpoints == InitManager /\ scriptPausedTimeout = FALSE

IdLists == (SUBSET BreakpointIds) \ {{}}

NextBreakpoints ==
  \/ \E configuration \in BOOLEAN :
       lastThreadId < MaxBpThreads /\ CreateThread(NoThread, configuration)
  \/ \E t \in ThreadIds : Initialize(t)
  \/ \E t \in ThreadIds : Dispose(t)
  \/ \E ids \in IdLists : EnableCustomBreakpoints(ids)
  \/ \E ids \in IdLists : DisableCustomBreakpoints(ids)
  \/ \E t \in ThreadIds, id \in BreakpointIds : AckCustomBreakpoint(t, id)

SpecBreakpoints == InitBreakpoints /\ [][NextBreakpoints]_vars

InitializedLive == initialized \cap LiveSet

\* C7: whatever the interleaving of setPauseOnExceptionsState calls (also
\* calls still waiting for acknowledgments) with thread creation and
\* initialization, the last setPauseOnExceptions command sent to every
\* initialized live thread carries the manager's current policy.
C7_LastCommandCarriesPolicy ==
  \A t \in InitializedLive : sentPoe[t] = pauseOnExceptionsState

\* two calls overlap, the policy has changed, and a thread that was initialized
\* after both calls were made (neither waits for it) has the policy
C7_Witness ==
  \E t \in InitializedLive :
    /\ Len(calls) >= 2
    /\ \A i \in DOMAIN calls : t \notin calls[i].awaiting
    /\ pauseOnExceptionsState # "none"
    /\ sentPoe[t] = pauseOnExceptionsState

\* C8: every id of the manager's enabled set (that the catalog knows) is
\* applied, enabled, on every initialized live thread that supports custom
\* breakpoints.
C8_EnabledIdsApplied ==
  \A id \in customBreakpoints \cap CatalogIds :
    \A t \in InitializedLive :
      supportsCustomBreakpoints[t] => appliedBp[t][id] = "on"

\* C9: after disableCustomBreakpoints(ids) none of the ids is in the manager's
\* enabled set.
C9_DisableRemoves ==
  [][\A ids \in IdLists :
       DisableCustomBreakpoints(ids) => customBreakpoints' \cap ids = {}]_vars
(* ==================== script / source specification ==================== *)
InitScripts == InitManager /\ scriptPausedTimeout = FALSE

NextScripts ==
  \/ lastThreadId + 1 \in TwoThreads /\ CreateThread(NoThread, FALSE)
  \/ \E t \in ThreadIds : Initialize(t)
  \/ \E t \in ThreadIds, scriptId \in ScriptIds, url \in Urls :
       Len(scriptObjs) < MaxScripts /\ OnScriptParsed(t, scriptId, url, FALSE)
  \/ \E t \in ThreadIds : TotalSlots < MaxClears /\ ExecutionContextsCleared(t)
  \/ \E t \in ThreadIds : Dispose(t)

SpecScripts == InitScripts /\ [][NextScripts]_vars

\* the Script objects some thread holds in its script map
HeldScripts == UNION {ScriptsOf(t) : t \in ThreadIds}

\* removeSource(src) is called in the step
RemoveSourceCalled(src) ==
  sources'[src].removed > (IF src \in DOMAIN sources THEN sources[src].removed ELSE 0)

\* the last Script referencing src leaves its back-reference set in the step
LastScriptRemoved(src) ==
  /\ src \in DOMAIN sources
  /\ sources[src].scripts # {}
  /\ sources'[src].scripts = {}

\* C3: removeSource(S) is called exactly in the steps in which the last Script
\* referencing S is removed, and never while a Script that some thread holds
\* still references S.
C3_RetiredWithLastScript ==
  [][\A src \in DOMAIN sources' :
       /\ RemoveSourceCalled(src) <=> LastScriptRemoved(src)
       /\ RemoveSourceCalled(src) =>
            \A script \in HeldScripts' : scriptObjs'[script].source # src
    ]_vars

\* one Source was retired with its last Script, and another Source has lost
\* one of its Scripts and is retained for those left
C3_Witness ==
  /\ \E src \in DOMAIN sources : sources[src].removed = 1
  /\ \E src \in DOMAIN sources :
       /\ sources[src].removed = 0
       /\ sources[src].scripts # {}
       /\ \E script \in DOMAIN scriptObjs :
            scriptObjs[script].source = src /\ script \notin sources[src].scripts

\* the Script objects created for src
ScriptsCreatedFor(src) == {script \in DOMAIN scriptObjs : scriptObjs[script].source = src}

\* C4: script-parsed events of one non-empty url share one Source (addSource is
\* not called while a Source of the url is registered, and every Script some
\* Source still refers to is bound to the registered Source of its url), and a
\* Source all of whose Scripts have been removed has had removeSource called
\* exactly once, a Source with a Script left never.
C4_OneSourceOneRemoval ==
  /\ \A a, b \in DOMAIN sources :
       (sources[a].registered /\ sources[b].registered
          /\ sources[a].url = sources[b].url /\ sources[a].url # "") => a = b
  /\ \A src \in DOMAIN sources :
       /\ sources[src].scripts # {} => sources[src].registered /\ sources[src].removed = 0
       /\ sources[src].scripts = {} => ~sources[src].registered /\ sources[src].removed = 1

\* two Scripts were parsed for "app.js", shared one Source, and both are removed
C4_Witness ==
  \E src \in DOMAIN sources :
    /\ sources[src].url = "app.js"
    /\ Cardinality(ScriptsCreatedFor(src)) >= 2
    /\ sources[src].scripts = {}
    /\ sources[src].removed = 1
(* =========================== pause specification ======================= *)
\* sourceMapTimeouts().scriptPaused is set, so initialize() asks for the
\* instrumentation breakpoint
InitPause == InitManager /\ scriptPausedTimeout = TRUE

OneThread == {1}

\* the pause events the target of t can send: an instrumentation pause that
\* names a script only once the target has accepted the instrumentation
\* breakpoint
SourceMapPauseEvents(t) ==
  IF instrBp[t] = "accepted" /\ Len(gated) < MaxGatedPauses
  THEN {PausedEvent("instrumentation", id, "", TRUE, FALSE) : id \in ScriptIds}
  ELSE {}

OrdinaryPauseEvents ==
  {PausedEvent("other", NoScriptId, "", FALSE, FALSE),
   PausedEvent("exception", NoScriptId, "", TRUE, FALSE)}

NextPause ==
  \/ lastThreadId + 1 \in OneThread /\ CreateThread(NoThread, FALSE)
  \/ \E t \in ThreadIds : Initialize(t)
  \/ \E t \in ThreadIds, result \in BOOLEAN : InstrumentationBreakpointAnswer(t, result)
  \/ \E handler \in BOOLEAN : SetScriptSourceMapHandler(handler)
  \/ \E t \in ThreadIds, scriptId \in ScriptIds, hasMap \in BOOLEAN :
       Len(scriptObjs) < MaxPauseScripts /\ OnScriptParsed(t, scriptId, "app.js", hasMap)
  \/ \E script \in mapWaits, nonEmpty \in BOOLEAN : SourceMapSourcesResolved(script, nonEmpty)
  \/ \E t \in ThreadIds :
       \E event \in SourceMapPauseEvents(t) \cup OrdinaryPauseEvents :
         (IsSourceMapPause(event) \/ dapStopped[t].count < MaxPauseStops) /\ Paused(t, event)
  \/ \E i \in DOMAIN gated, outcome \in {"sources", "timeout", "rejected"} :
       RaceSettled(i, outcome)
  \/ \E i \in DOMAIN gated, fulfilled \in BOOLEAN : HandlerSettled(i, fulfilled)
  \/ \E t \in ThreadIds : resumeCmds[t] < MaxResumeCmds /\ targetPaused[t] /\ Resume(t)
  \/ \E t \in ThreadIds : TargetResumes(t)

SpecPause == InitPause /\ [][NextPause]_vars

\* the invocation of _handleSourceMapPause is over: it returned or it was rejected
Over(g) == g.pc \in {"done", "failed"}

\* C10: for every gated pause handled by _handleSourceMapPause the thread sends
\* Debugger.resume exactly once: never twice, and once the handling is over
\* (also when the resolution or the handler failed) not zero times.
C10_ResumedExactlyOnce ==
  \A i \in DOMAIN gated :
    /\ gated[i].resumes <= 1
    /\ Over(gated[i]) => gated[i].resumes = 1
(* ========================== output specification ======================= *)
InitOutput == InitManager /\ scriptPausedTimeout = FALSE

Payloads == {"none", "clear", "text"}

NextOutput ==
  \/ lastThreadId + 1 \in TwoThreads /\ CreateThread(NoThread, FALSE)
  \/ \E t \in ThreadIds : Initialize(t)
  \/ \E t \in ThreadIds : TotalSlots < MaxSlots /\ ConsoleAPICalled(t)
  \/ \E t \in ThreadIds : TotalSlots < MaxSlots /\ ExceptionThrown(t)
  \/ \E t \in ThreadIds : TotalSlots < MaxSlots /\ InspectRequestedQueryObjects(t)
  \/ \E t \in ThreadIds : TotalSlots < MaxSlots /\ ExecutionContextsCleared(t)
  \/ \E t \in ThreadIds, k \in 1 .. MaxSlots, payload \in Payloads : Deliver(t, k, payload)
  \/ \E t \in ThreadIds, k \in 1 .. MaxSlots : SlotTimeout(t, k)

SpecOutput == InitOutput /\ [][NextOutput]_vars

\* setTimeout: while a timer is armed, some armed timer fires
OutputFairness == WF_vars(\E t \in TwoThreads, k \in 1 .. MaxSlots : SlotTimeout(t, k))

SpecOutputFair == InitOutput /\ [][NextOutput]_vars /\ OutputFairness

\* C1: the payloads of a thread reach dap.output in the order in which their
\* slots were claimed, whatever the order and the time of the delivery calls.
C1_ClaimOrder ==
  \A i, j \in DOMAIN dapOutput :
    (i < j /\ dapOutput[i].thread = dapOutput[j].thread)
      => dapOutput[i].slot < dapOutput[j].slot

Emitted(t, k) == \E i \in DOMAIN dapOutput : dapOutput[i].thread = t /\ dapOutput[i].slot = k

HasSlot(t, k) == k \in DOMAIN slots[t]

\* slot k of thread t is through: its delivery function got past `await slot`,
\* and a text payload was emitted
Through(t, k) == slots[t][k].ran /\ (slots[t][k].payload = "text" => Emitted(t, k))

\* C2: a slot whose delivery function is never called does not block the slots
\* claimed after it: again and again every slot whose delivery function has
\* been called is through, however many earlier slots were never delivered.
C2_StalledSlotUnblocks ==
  []<>(\A t \in TwoThreads : \A k \in DOMAIN slots[t] : slots[t][k].called => Through(t, k))

\* a slot was never delivered, its timer fired, and a slot claimed after it on
\* the same thread has emitted its payload
C2_Witness ==
  \E t \in TwoThreads, k \in 1 .. MaxSlots :
    /\ HasSlot(t, k)
    /\ ~slots[t][k].called /\ slots[t][k].resolved
    /\ \E j \in (k + 1) .. MaxSlots :
         HasSlot(t, j) /\ slots[t][j].payload = "text" /\ Emitted(t, j)

(* ======================== pause-state specification ==================== *)
InitStops == InitManager /\ scriptPausedTimeout = TRUE

\* event.reason values: the cases of _createPausedDetails and one it does not name
PauseReasons == {"assert", "debugCommand", "DOM", "EventListener", "exception",
                 "promiseRejection", "instrumentation", "XHR", "OOM", "other"}

\* data['eventName'] values: absent, an id of the catalog, an id it does not have
ListenerNames == {"", "click", "stale"}

\* the pause events that carry no script id: every reason, with and without
\* data, with and without hit breakpoints; an event-listener pause with each name
StopEvents ==
  {PausedEvent(reason, NoScriptId, "", hasData, hit) :
     reason \in PauseReasons, hasData \in BOOLEAN, hit \in BOOLEAN}
  \cup {PausedEvent("EventListener", NoScriptId, name, TRUE, FALSE) : name \in ListenerNames}

\* every pause event the target of t can send: an instrumentation pause names
\* a script only once the target has accepted the instrumentation breakpoint
PauseEventsOf(t) ==
  StopEvents \cup
  (IF instrBp[t] = "accepted"
   THEN {PausedEvent("instrumentation", id, "", TRUE, FALSE) : id \in ScriptIds}
   ELSE {})

NextStops ==
  \/ lastThreadId + 1 \in OneThread /\ CreateThread(NoThread, FALSE)
  \/ \E t \in ThreadIds : Initialize(t)
  \/ \E t \in ThreadIds, result \in BOOLEAN : InstrumentationBreakpointAnswer(t, result)
  \/ \E t \in ThreadIds, scriptId \in ScriptIds :
       Len(scriptObjs) < MaxStopScripts /\ OnScriptParsed(t, scriptId, "app.js", FALSE)
  \/ \E t \in ThreadIds :
       \E event \in PauseEventsOf(t) :
         Len(gated) + dapStopped[t].count < MaxStops /\ Paused(t, event)
  \/ \E i \in DOMAIN gated, outcome \in {"sources", "timeout", "rejected"} :
       RaceSettled(i, outcome)
  \/ \E t \in ThreadIds : resumeCmds[t] = 0 /\ targetPaused[t] /\ Resume(t)
  \/ \E t \in ThreadIds : TargetResumes(t)
  \/ \E t \in ThreadIds : TotalSlots < MaxClears /\ ExecutionContextsCleared(t)
  \/ \E t \in ThreadIds : Dispose(t)

SpecStops == InitStops /\ [][NextStops]_vars

(* ========================= transport specification ===================== *)
InitTransportSpec == InitManager /\ scriptPausedTimeout = FALSE

NextTransport ==
  \/ \E url \in TransportUrls : TransportCreate(url)
  \/ LoopbackAnswered
  \/ Cancel
  \/ AttemptOpened
  \/ \E kind \in {"error", "timeout", "cancelled"} :
       (cancellationRequested \/ Len(attempts) < MaxAttempts) /\ AttemptFailed(kind)
  \/ transmitted < MaxSends /\ TransportSend
  \/ Len(disposes) < MaxDisposes /\ TransportDispose
  \/ CloseEvent

SpecTransport == InitTransportSpec /\ [][NextTransport]_vars

FailedOutcomes == {"error", "timeout", "cancelled"}

\* C12: create() throws only when cancellation has been requested, and then
\* the error of the most recent attempt; every attempt that timed out or
\* failed has had its WebSocket closed; while cancellation has not been
\* requested a failed attempt is followed by a new one; once it is requested
\* no attempt follows a failed one.
C12_RetryUntilCancelled ==
  [][/\ createPc' = "thrown" =>
          /\ cancellationRequested'
          /\ thrown'.attempt = Len(attempts')
          /\ thrown'.kind = attempts'[Len(attempts')].outcome
          /\ thrown'.kind \in FailedOutcomes
     /\ \A i \in DOMAIN attempts' :
          attempts'[i].outcome \in FailedOutcomes => attempts'[i].closed
     /\ \A kind \in FailedOutcomes :
          AttemptFailed(kind) =>
            IF cancellationRequested
            THEN Len(attempts') = Len(attempts) /\ createPc' = "thrown"
            ELSE /\ Len(attempts') = Len(attempts) + 1
                 /\ attempts'[Len(attempts')].outcome = "pending"
                 /\ createPc' = "attempt"
                 /\ thrown' = NoError]_vars

\* two attempts failed and were retried, cancellation came during the third,
\* whose error create() has thrown
C12_Witness ==
  /\ createPc = "thrown"
  /\ Len(attempts) = 3
  /\ attempts[1].outcome = "timeout"
  /\ attempts[2].outcome = "error"
  /\ thrown.attempt = 3

\* the connection is made over TLS: the scheme of the url is wss
UsesTls(url) == SubSeq(url, 1, 4) = <<"w", "s", "s", ":">>

C14_DisposeAfterClose ==
  [][/\ \A i \in DOMAIN disposes' :
          disposes'[i] = "resolved" => endFired' = 1 /\ ws' = "undefined"
     /\ endFired' <= 1
     /\ readyState' = "closed" => endFired' = 1
     /\ TransportDispose =>
          IF readyState = "closed"
          THEN disposes'[Len(disposes')] = "resolved"
          ELSE disposes'[Len(disposes')] = "pending" /\ readyState' = "closing"
     /\ transmitted' # transmitted =>
          \A i \in DOMAIN disposes : disposes[i] # "resolved"]_vars

\* a message was sent, dispose() was called on the open transport and again
\* while it was closing, and both promises resolved with the close event
C14_Witness ==
  /\ transmitted > 0
  /\ Len(disposes) = 2
  /\ \A i \in DOMAIN disposes : disposes[i] = "resolved"
  /\ endFired = 1
  /\ readyState = "closed"

\* the pause event has reason 'instrumentation' and carries a script id
CarriesScriptId(event) == event.reason = "instrumentation" /\ event.scriptId # NoScriptId

\* C11: a pause event with reason 'instrumentation' that carries a script id
\* leaves PausedDetails, the paused variable store and the stopped
\* notifications as they were; every other pause event sets PausedDetails,
\* allocates the variable store and sends exactly one stopped notification;
\* and no other step sends a stopped notification.
C11_InstrumentationPauseHidden ==
  [][/\ \A t \in ThreadIds : \A event \in PauseEventsOf(t) :
          Paused(t, event) =>
            IF CarriesScriptId(event)
            THEN UNCHANGED <<pausedDetails, pausedVariables, dapStopped, dapRun, dapRunBefore>>
            ELSE /\ pausedDetails'[t] # NoDetails
                 /\ pausedVariables'[t]
                 /\ dapStopped'[t].count = dapStopped[t].count + 1
                 /\ dapRun'[t] = "stopped"
     /\ dapStopped' # dapStopped =>
          \E t \in ThreadIds : \E event \in PauseEventsOf(t) :
            ~CarriesScriptId(event) /\ Paused(t, event)]_vars

\* the target is held by an instrumentation pause for a script the thread
\* knows, and the thread shows no pause
C11_Witness ==
  \E i \in DOMAIN gated :
    /\ gated[i].pc = "race"
    /\ targetPaused[gated[i].thread]
    /\ pausedDetails[gated[i].thread] = NoDetails
    /\ ~pausedVariables[gated[i].thread]
    /\ dapStopped[gated[i].thread].count = 0

\* the event names no id of the custom-breakpoint catalog
UnknownListener(event) ==
  event.reason = "EventListener" /\ (~event.hasData \/ event.eventName \notin CatalogIds)

GenericListenerStop ==
  [reason |-> "function breakpoint", description |-> "Paused on event listener",
   text |-> "none"]

\* C15: a pause event with reason 'EventListener' whose event name is missing
\* or not in the catalog sets PausedDetails and sends one stopped notification,
\* both with reason 'function breakpoint' and description 'Paused on event
\* listener'.
C15_UnknownListenerGeneric ==
  [][\A t \in ThreadIds : \A event \in PauseEventsOf(t) :
       UnknownListener(event) /\ Paused(t, event) =>
         /\ pausedDetails'[t].reason = "function breakpoint"
         /\ pausedDetails'[t].description = "Paused on event listener"
         /\ pausedVariables'[t]
         /\ dapStopped'[t] = [count |-> dapStopped[t].count + 1, last |-> GenericListenerStop]]_vars

\* the thread is paused on an event listener with the generic description
C15_Witness ==
  \E t \in ThreadIds :
    /\ pausedDetails[t].description = "Paused on event listener"
    /\ dapStopped[t].last = GenericListenerStop
    /\ dapRun[t] = "stopped"

\* the reasons _createPausedDetails has a case for
NamedReasons == {"assert", "debugCommand", "DOM", "EventListener", "exception",
                 "promiseRejection", "instrumentation", "XHR", "OOM"}

\* the details and the stopped notification of t after the step
StoppedWith(t, reason, description) ==
  /\ pausedDetails'[t].reason = reason
  /\ pausedDetails'[t].description = description
  /\ dapStopped'[t].last.reason = reason
  /\ dapStopped'[t].last.description = description

\* C16 as stated: reason 'exception' gives 'exception' / 'Paused on exception'
\* with the exception object of the event data, and a reason that is none of
\* the named ones gives 'step' / 'Paused', with or without hit breakpoints.
C16_ReasonMapping ==
  [][\A t \in ThreadIds : \A event \in PauseEventsOf(t) :
       Paused(t, event) =>
         /\ event.reason = "exception" =>
              /\ StoppedWith(t, "exception", "Paused on exception")
              /\ pausedDetails'[t].exception = event.hasData
         /\ event.reason \notin NamedReasons => StoppedWith(t, "step", "Paused")]_vars

\* C16 amended: reason 'exception' gives 'exception' / 'Paused on exception'
\* with the exception object of the event data; a reason that is none of the
\* named ones gives 'breakpoint' / 'Paused on breakpoint' when the event lists
\* hit breakpoints and 'step' / 'Paused' when it lists none.
C16_ReasonMappingAmended ==
  [][\A t \in ThreadIds : \A event \in PauseEventsOf(t) :
       Paused(t, event) =>
         /\ event.reason = "exception" =>
              /\ StoppedWith(t, "exception", "Paused on exception")
              /\ pausedDetails'[t].exception = event.hasData
         /\ event.reason \notin NamedReasons =>
              IF event.hitBreakpoints
              THEN StoppedWith(t, "breakpoint", "Paused on breakpoint")
              ELSE StoppedWith(t, "step", "Paused")]_vars

\* the thread is paused by an event of no named reason that lists hit breakpoints
C16_Witness ==
  \E t \in ThreadIds :
    /\ pausedDetails[t].reason = "breakpoint"
    /\ dapStopped[t].last.description = "Paused on breakpoint"

\* C17: a Paused thread is Running after a resumed event, after an
\* execution-contexts-cleared event and after dispose(): its details and its
\* variable store are unset and a continued notification follows the stopped
\* one; and the details are set exactly when the variable store is allocated.
C17_PausedToRunning ==
  [][/\ \A t \in ThreadIds : pausedDetails'[t] # NoDetails <=> pausedVariables'[t]
     /\ \A t \in ThreadIds :
          IsPaused(t) /\ (TargetResumes(t) \/ ExecutionContextsCleared(t) \/ Dispose(t)) =>
            /\ pausedDetails'[t] = NoDetails
            /\ ~pausedVariables'[t]
            /\ dapRun[t] = "stopped"
            /\ dapRun'[t] = "continued"]_vars

\* a thread that was paused and never resumed by its target is Running after
\* dispose()
C17_Witness ==
  \E t \in ThreadIds :
    /\ Created(t) /\ ~Live(t)
    /\ dapStopped[t].count = 1
    /\ targetPaused[t]
    /\ slots[t] = <<>>
    /\ pausedDetails[t] = NoDetails
    /\ ~pausedVariables[t]
    /\ dapRun[t] = "continued"

(* ====================== acknowledgment specification =================== *)
\* the policy broadcast with commands that succeed or fail, over two threads
InitAcks == InitManager /\ scriptPausedTimeout = FALSE

NextAcks ==
  \/ lastThreadId + 1 \in TwoThreads /\ CreateThread(NoThread, FALSE)
  \/ \E t \in ThreadIds : Dispose(t)
  \/ \E state \in PauseOnExceptionsStates :
       Len(calls) < MaxCalls /\ SetPauseOnExceptionsState(state)
  \/ \E i \in DOMAIN calls, t \in ThreadIds, answer \in CommandAnswers :
       AckPauseOnExceptions(i, t, answer)

SpecAcks == InitAcks /\ [][NextAcks]_vars

\* C18: setPauseOnExceptionsState stores the policy and sends the command to
\* every live thread in the step of the call, before any acknowledgment; the
\* call returns only with the last acknowledgment it waits for; and it never
\* fails, whatever the threads' commands answered.
C18_BroadcastThenWait ==
  [][/\ \A state \in PauseOnExceptionsStates :
          SetPauseOnExceptionsState(state) =>
            /\ pauseOnExceptionsState' = state
            /\ \A t \in LiveSet : sentPoe'[t] = state
            /\ LiveSet # {} =>
                 /\ Len(calls') = Len(calls) + 1
                 /\ calls'[Len(calls')].awaiting = LiveSet
                 /\ lastReturn' = lastReturn
     /\ Len(calls') < Len(calls) =>
          \E i \in DOMAIN calls : \E t \in ThreadIds :
            calls[i].awaiting = {t} /\ calls' = WithoutCall(calls, i)
     /\ lastReturn' # "rejected"]_vars

\* the command of one thread has failed while the call still waits for the
\* other thread, which has been sent the policy
C18_Witness ==
  \E i \in DOMAIN calls : \E t \in LiveSet :
    /\ calls[i].failed
    /\ t \in calls[i].awaiting
    /\ sentPoe[t] = pauseOnExceptionsState
    /\ Cardinality(LiveSet) >= 2

\* C19: when enableCustomBreakpoints or disableCustomBreakpoints returns, no
\* command of that broadcast is still on its way: the target of every live
\* thread has answered the command of every given id.
C19_ReturnsAfterAcks ==
  [][\A ids \in IdLists :
       (EnableCustomBreakpoints(ids) \/ DisableCustomBreakpoints(ids))
         /\ lastReturn' = "fulfilled" =>
           \A t \in LiveSet : \A id \in ids : id \notin bpInFlight'[t]]_vars

\* C20: updateCustomBreakpoint never reports false; a broadcast makes it
\* report true for every given id on every live thread, and on a thread that
\* does not support custom breakpoints, or for an id the catalog does not
\* have, nothing is applied and no command is sent.
C20_AlwaysReportsSuccess ==
  [][/\ \A t \in ThreadIds : \A id \in BreakpointIds : bpReported'[t][id] # "false"
     /\ \A ids \in IdLists :
          EnableCustomBreakpoints(ids) \/ DisableCustomBreakpoints(ids) =>
            \A t \in LiveSet : \A id \in ids :
              /\ bpReported'[t][id] = "true"
              /\ ~supportsCustomBreakpoints[t] \/ id \notin CatalogIds =>
                   /\ appliedBp'[t][id] = appliedBp[t][id]
                   /\ id \in bpInFlight'[t] <=> id \in bpInFlight[t]]_vars

\* a thread without the capability has reported true for a catalog id, a
\* thread with it has reported true for an id the catalog does not have, and
\* neither has sent a command for it
C20_Witness ==
  \E t, u \in LiveSet :
    /\ ~supportsCustomBreakpoints[t]
    /\ bpReported[t]["click"] = "true"
    /\ appliedBp[t]["click"] = "unset"
    /\ supportsCustomBreakpoints[u]
    /\ bpReported[u]["stale"] = "true"
    /\ appliedBp[u]["stale"] = "unset"
    /\ "stale" \notin bpInFlight[u]

\* the entries of threadLabels() for thread t
LabelsOf(t) == {i \in DOMAIN ThreadLabels : ThreadLabels[i].id = t}

\* the nearest entry before the i-th that is indented one level less
EnclosingLabel(i) ==
  CHOOSE j \in 0 .. (i - 1) :
    /\ j = 0 \/ ThreadLabels[j].indentation = ThreadLabels[i].indentation - 4
    /\ \A k \in (j + 1) .. (i - 1) :
         ThreadLabels[k].indentation # ThreadLabels[i].indentation - 4

\* C21: threadLabels() lists every registered thread exactly once and no
\* disposed thread, depth-first: a thread without a parent is not indented,
\* and every other entry follows its parent's entry, indented four
\* non-breaking spaces more, children in the order of the parent's list.
C21_LabelsListRegistered ==
  /\ \A t \in LiveSet : Cardinality(LabelsOf(t)) = 1
  /\ \A i \in DOMAIN ThreadLabels : ThreadLabels[i].id \in LiveSet
  /\ \A i \in DOMAIN ThreadLabels :
       LET t == ThreadLabels[i].id IN
       IF ThreadLabels[i].indentation = 0
       THEN parentThread[t] = NoThread
       ELSE /\ EnclosingLabel(i) # 0
            /\ t \in Range(childThreads[ThreadLabels[EnclosingLabel(i)].id])
  /\ \A i, j \in DOMAIN ThreadLabels :
       /\ i < j
       /\ ThreadLabels[i].indentation = ThreadLabels[j].indentation
       /\ EnclosingLabel(i) = EnclosingLabel(j)
       /\ EnclosingLabel(i) # 0
       => LET list == childThreads[ThreadLabels[EnclosingLabel(i)].id] IN
          Position(list, ThreadLabels[i].id) < Position(list, ThreadLabels[j].id)

\* how often x occurs in list
Occurrences(list, x) == Cardinality({i \in DOMAIN list : list[i] = x})

\* C27: for every registered thread T, T.parentThread is unset or a
\* registered thread, T occurs exactly once in its parent's child list and in
\* no other registered thread's child list, and no child list of a registered
\* thread holds a disposed thread.
C27_TreeConsistent ==
  \A t \in LiveSet :
    /\ parentThread[t] = NoThread \/ parentThread[t] \in LiveSet
    /\ parentThread[t] # NoThread => Occurrences(childThreads[parentThread[t]], t) = 1
    /\ \A p \in LiveSet \ {parentThread[t]} : Occurrences(childThreads[p], t) = 0
    /\ Range(childThreads[t]) \subseteq LiveSet

(* ==================== capability degradation specification ============= *)
\* one thread whose target accepts or rejects the instrumentation breakpoint,
\* with pauses and custom-breakpoint broadcasts
InitDegrade == InitManager /\ scriptPausedTimeout = TRUE

NextDegrade ==
  \/ \E configuration \in BOOLEAN :
       lastThreadId + 1 \in OneThread /\ CreateThread(NoThread, configuration)
  \/ \E t \in ThreadIds : Initialize(t)
  \/ \E t \in ThreadIds, result \in BOOLEAN : InstrumentationBreakpointAnswer(t, result)
  \/ \E t \in ThreadIds :
       \E event \in PauseEventsOf(t) :
         Len(gated) + dapStopped[t].count < MaxStops /\ Paused(t, event)
  \/ \E t \in ThreadIds : resumeCmds[t] = 0 /\ targetPaused[t] /\ Resume(t)
  \/ \E t \in ThreadIds : TargetResumes(t)
  \/ \E ids \in IdLists : EnableCustomBreakpoints(ids)
  \/ \E ids \in IdLists : DisableCustomBreakpoints(ids)
  \/ \E t \in ThreadIds, id \in BreakpointIds : AckCustomBreakpoint(t, id)
  \/ \E t \in ThreadIds : Dispose(t)

SpecDegrade == InitDegrade /\ [][NextDegrade]_vars

\* the target has rejected the instrumentation breakpoint of t
Rejected(t) == instrBp[t] = "rejected"

\* C22: the instrumentation-breakpoint command is sent only by a thread that
\* has not sent it before; once the target has rejected it,
\* supportsSourceMapPause() stays false and the command is not sent again;
\* and on such a thread a pause event still sets the details and sends one
\* stopped notification, and a custom-breakpoint broadcast is still applied
\* and reported.
C22_RejectedStaysDisabled ==
  [][\A t \in ThreadIds :
       /\ instrBp'[t] = "pending" /\ instrBp[t] # "pending" => instrBp[t] = "none"
       /\ Rejected(t) => Rejected(t)'
       /\ Rejected(t)' => ~supportsSourceMapPause'[t]
       /\ Rejected(t) =>
            /\ \A event \in StopEvents :
                 Paused(t, event) =>
                   /\ pausedDetails'[t] # NoDetails
                   /\ pausedVariables'[t]
                   /\ dapStopped'[t].count = dapStopped[t].count + 1
            /\ \A ids \in IdLists : \A id \in ids :
                 Live(t) /\ supportsCustomBreakpoints[t] /\ id \in CatalogIds =>
                   /\ EnableCustomBreakpoints(ids) =>
                        appliedBp'[t][id] = "on" /\ bpReported'[t][id] = "true"
                   /\ DisableCustomBreakpoints(ids) =>
                        appliedBp'[t][id] = "off" /\ bpReported'[t][id] = "true"]_vars

\* a thread whose instrumentation breakpoint was rejected is paused with
\* details and has a custom breakpoint applied
C22_Witness ==
  \E t \in ThreadIds :
    /\ Rejected(t)
    /\ ~supportsSourceMapPause[t]
    /\ pausedDetails[t] # NoDetails
    /\ dapRun[t] = "stopped"
    /\ appliedBp[t]["click"] = "on"

\* the delivery function of slot k of thread t ran with a clear-console
\* payload and did not call dap.output
SuppressedClear(t, k) ==
  slots[t][k].ran /\ slots[t][k].payload = "clear" /\ ~Emitted(t, k)

\* C23: in the output events of all threads the first is no clear-console
\* payload and no two clear-console payloads are adjacent; and a slot whose
\* clear was suppressed has resolved its promise.
C23_ClearOnlyWhenDirty ==
  /\ dapOutput # <<>> => dapOutput[1].payload # "clear"
  /\ \A i \in DOMAIN dapOutput :
       i < Len(dapOutput) =>
         ~(dapOutput[i].payload = "clear" /\ dapOutput[i + 1].payload = "clear")
  /\ \A t \in ThreadIds : \A k \in DOMAIN slots[t] :
       SuppressedClear(t, k) => slots[t][k].resolved

\* one thread's clear was emitted after a text payload, and the clear of the
\* other thread that followed it was suppressed and its slot is complete
C23_Witness ==
  \E t, u \in ThreadIds : \E k \in DOMAIN slots[t] :
    /\ t # u
    /\ SuppressedClear(t, k)
    /\ slots[t][k].resolved
    /\ Len(dapOutput) = 2
    /\ dapOutput[2].payload = "clear"
    /\ dapOutput[2].thread = u

\* thread t has been disposed
Disposed(t) == Created(t) /\ ~Live(t)

\* C24: after dispose() no protocol event changes the disposed thread: its
\* script map, pause state and execution contexts stay as they are, no Script
\* of it is created, and no stopped, continued or output notification is
\* sent for it.
C24_DisposedThreadInert ==
  [][\A t \in ThreadIds :
       Disposed(t) =>
         /\ scripts'[t] = scripts[t]
         /\ pausedDetails'[t] = pausedDetails[t]
         /\ pausedVariables'[t] = pausedVariables[t]
         /\ executionContexts'[t] = executionContexts[t]
         /\ \A i \in DOMAIN scriptObjs' \ DOMAIN scriptObjs : scriptObjs'[i].thread # t
         /\ dapStopped'[t] = dapStopped[t]
         /\ dapRun'[t] = dapRun[t]
         /\ \A i \in DOMAIN dapOutput' \ DOMAIN dapOutput : dapOutput'[i].thread # t]_vars

\* the timer of slot k fired before its delivery function was called
TimedOutUncalled(t, k) == HasSlot(t, k) /\ slots[t][k].resolved /\ ~slots[t][k].called

\* no slot has two dap.output events
EmittedOnce ==
  \A i, j \in DOMAIN dapOutput :
    (dapOutput[i].thread = dapOutput[j].thread /\ dapOutput[i].slot = dapOutput[j].slot) => i = j

\* C25: a slot whose timeout elapsed before its delivery function was called
\* has completed with no payload: whatever happens next, the delivery call
\* included, nothing is emitted for it; and no slot's payload is emitted twice.
C25_TimedOutSlotEmitsNothing ==
  [][/\ \A t \in ThreadIds : \A k \in 1 .. MaxSlots :
          TimedOutUncalled(t, k) => ~Emitted(t, k)'
     /\ EmittedOnce']_vars

(* ======================= notification specification ==================== *)
InitNotify == InitManager /\ scriptPausedTimeout = TRUE

RECURSIVE StoppedCount(_)
StoppedCount(S) ==
  IF S = {} THEN 0
  ELSE LET t == CHOOSE x \in S : TRUE IN dapStopped[t].count + StoppedCount(S \ {t})

\* the pause events of this specification: one ordinary pause, an exception
\* pause, an instrumentation pause without data, and, once the target has
\* accepted the instrumentation breakpoint, an instrumentation pause that
\* names a script
NotifyEventsOf(t) ==
  {PausedEvent("other", NoScriptId, "", FALSE, FALSE),
   PausedEvent("exception", NoScriptId, "", TRUE, FALSE),
   PausedEvent("instrumentation", NoScriptId, "", FALSE, FALSE)}
  \cup (IF instrBp[t] = "accepted"
        THEN {PausedEvent("instrumentation", "s1", "", TRUE, FALSE)}
        ELSE {})

NextNotify ==
  \/ lastThreadId + 1 \in TwoThreads /\ CreateThread(NoThread, FALSE)
  \/ \E t \in ThreadIds : Initialize(t)
  \/ \E t \in ThreadIds, result \in BOOLEAN : InstrumentationBreakpointAnswer(t, result)
  \/ \E t \in ThreadIds :
       \E event \in NotifyEventsOf(t) :
         Len(gated) + StoppedCount(ThreadIds) < MaxNotifyStops /\ Paused(t, event)
  \/ \E t \in ThreadIds : resumeCmds[t] = 0 /\ targetPaused[t] /\ Resume(t)
  \/ \E t \in ThreadIds : TargetResumes(t)
  \/ \E t \in ThreadIds : TotalSlots < MaxClears /\ ExecutionContextsCleared(t)
  \/ StoppedCount(ThreadIds) < MaxNotifyStops + 1 /\ RefreshStackTraces
  \/ \E t \in ThreadIds : Dispose(t)

SpecNotify == InitNotify /\ [][NextNotify]_vars

\* C26: the stopped and continued notifications of a thread alternate,
\* starting with stopped: of the last two notifications sent for a thread, a
\* continued comes right after a stopped, and a stopped never comes right
\* after a stopped.
C26_StoppedContinuedAlternate ==
  \A t \in ThreadIds :
    /\ dapRun[t] = "continued" => dapRunBefore[t] = "stopped"
    /\ dapRun[t] = "stopped" => dapRunBefore[t] # "stopped"

\* the Script is the entry for its script id in the script map of its thread
IsMapEntry(script) ==
  scripts[scriptObjs[script].thread][scriptObjs[script].scriptId] = script

\* the Script is in the back-reference set of its Source
IsBackReferenced(script) == script \in sources[scriptObjs[script].source].scripts

\* C28: the script maps and the back-reference sets agree: a Script is in its
\* Source's back-reference set exactly if it is the entry for its script id in
\* its thread's script map, and the back-reference set of a Source holds
\* Scripts of that Source only.
C28_MapsAndBackReferencesAgree ==
  /\ \A script \in DOMAIN scriptObjs : IsBackReferenced(script) <=> IsMapEntry(script)
  /\ \A src \in DOMAIN sources : \A script \in sources[src].scripts :
       scriptObjs[script].source = src

\* C29: the script-with-source-map handler is invoked at most once for each
\* Script, whether through the wait started at script-parsed or through the
\* gated instrumentation pause, in whatever order the script-parsed event, the
\* pause and the answer to the instrumentation breakpoint command arrive.
C29_HandlerAtMostOnce ==
  \A script \in DOMAIN handlerCalls : handlerCalls[script] <= 1

\* the handler ran twice for a Script that was paused for once
BothPathsTaken ==
  \E script \in DOMAIN handlerCalls :
    /\ handlerCalls[script] = 2
    /\ Cardinality({i \in DOMAIN gated : gated[i].script = script}) = 1
====
